---- MODULE Spec2Model ----
(***************************************************************************)
(* Chunk store of the medical-document portal: the document_chunks table   *)
(* with its NOT NULL columns, its three foreign keys (two ON DELETE        *)
(* CASCADE, one ON DELETE SET NULL), its SERIAL key and its BEFORE UPDATE  *)
(* trigger, together with the operations of the portal that reach it.      *)
(***************************************************************************)
EXTENDS Integers, Sequences, FiniteSets, TLC

\* ---------------------------------------------------------------- bounds
MaxChunks == 2

\* SQL NULL; every identifier, index and timestamp of the model is >= 0
NULL == -1

PatientIds == {1, 2}
DocumentIds == {1, 2}
ExtractionIds == {1}
Texts == {1}
Vectors == {1, 2}
Indexes == {0, 1}

VARIABLES
  patients,         \* ids of the rows of table patients
  documents,        \* rows of table documents: [id, patient_id]
  extractions,      \* ids of the rows of table extractions
  document_chunks,  \* committed rows of table document_chunks
  chunk_id_seq,     \* next value of the SERIAL sequence of document_chunks.id
  now,              \* CURRENT_TIMESTAMP
  lastOp,           \* the last statement executed and its outcome
  txn,              \* the replace_chunks_for_document transaction in flight
  lastQuery,        \* the last query_nearest call and the rows it returned
  component,        \* the chat component mounted: PatientChatbot or MediKeepChatWidget
  hasDocuments,     \* prop hasDocuments of the chat component
  messages,         \* state messages of the chat component: the turns shown
  input,            \* state input of the chat component: the text typed
  loading,          \* state loading of the chat component
  request,          \* the payload of the POST .../rag/chat in flight, or NoRequest
  response,         \* the reply to it on its way to the component, or NoResponse
  chatEvent,        \* the last event of the chat component and what it did
  priorMessages,    \* messages as they were when the last question was sent
  priorInput,       \* the text, as typed or clicked, of the last question sent
  orchestrator,     \* the turn of the chat orchestrator for the request in flight
  assembly,         \* a context assembly on its own: its inputs and its result
  chunker,          \* a run of the chunker: its inputs, its position, its chunks
  isRefreshing,     \* module variable isRefreshing of the api client
  failedQueue,      \* module variable failedQueue: the requests waiting
  localStorage,     \* the items access_token, refresh_token and user
  requests,         \* every request made through the api client, and its state
  location,         \* window.location.href
  apiEvent,         \* the last step of the api client: which request, what outcome
  rendered,         \* the state the handlers of the committed chat render read
  pending,          \* the sendRAGChat calls of handleSend not yet settled
  uploadProgress,   \* state uploadProgress of DocumentUpload: [id, status]
  isUploading,      \* state isUploading of DocumentUpload
  upload,           \* the handleUpload call in progress: its position and locals
  uploadEvent       \* the last step of DocumentUpload and what it showed

storeVars == <<patients, documents, extractions, document_chunks,
               chunk_id_seq, now, lastOp>>

\* what the statements on the tables leave alone
pipelineVars == <<txn, lastQuery>>

\* the chat component and the request it has in flight
chatVars == <<component, hasDocuments, messages, input, loading, request,
              response, chatEvent, priorMessages, priorInput>>

\* the api client with its interceptors
apiVars == <<isRefreshing, failedQueue, localStorage, requests, location,
             apiEvent>>

\* the committed render of the chat component and the calls it has made
renderVars == <<rendered, pending>>

\* the DocumentUpload component
uploadVars == <<uploadProgress, isUploading, upload, uploadEvent>>

\* the components of the pages beside the chat state itself
pageVars == <<renderVars, uploadVars>>

\* what the statements and transactions of the chunk store leave alone
clientVars == <<chatVars, orchestrator, assembly, chunker, apiVars, pageVars>>

\* what the chat components leave alone, the orchestrator apart
offChatVars == <<storeVars, pipelineVars, assembly, chunker, apiVars,
                 pageVars>>

vars == <<patients, documents, extractions, document_chunks,
          chunk_id_seq, now, lastOp, txn, lastQuery, chatVars, orchestrator,
          assembly, chunker, apiVars, pageVars>>

\* ------------------------------------------------------------- helpers
DocumentIdsPresent == {d.id : d \in documents}

DocumentRow(d) == CHOOSE r \in documents : r.id = d

\* the patient a document belongs to (documents.patient_id), NULL if the
\* document is unassigned or does not exist
PatientOfDocument(d) ==
  IF d \in DocumentIdsPresent THEN DocumentRow(d).patient_id ELSE NULL

ChunksOfDocument(d) == {c \in document_chunks : c.document_id = d}

ChunksOfPatient(p) == {c \in document_chunks : c.patient_id = p}

\* ----------------------------------------------- constraints of the table
\* patient_id, document_id, chunk_text, chunk_index: NOT NULL
NotNullColumns(row) ==
  /\ row.patient_id # NULL
  /\ row.document_id # NULL
  /\ row.chunk_text # NULL
  /\ row.chunk_index # NULL

\* the column without its NOT NULL
EmbeddingNullable(row) == TRUE

\* embedding vector(3072) NOT NULL
EmbeddingNotNull(row) == row.embedding # NULL

\* patient_id REFERENCES patients(id)
PatientForeignKey(row) == row.patient_id \in patients

\* the column without its REFERENCES documents(id)
DocumentForeignKeyUnchecked(row) == TRUE

\* document_id REFERENCES documents(id)
DocumentForeignKey(row) == row.document_id \in DocumentIdsPresent

\* extraction_id REFERENCES extractions(id); a NULL reference is allowed
ExtractionForeignKey(row) ==
  row.extraction_id # NULL => row.extraction_id \in extractions

RowAccepted(row) ==
  /\ NotNullColumns(row)
  /\ EmbeddingNotNull(row)
  /\ PatientForeignKey(row)
  /\ DocumentForeignKey(row)
  /\ ExtractionForeignKey(row)

\* the constraint a rejected INSERT reports: the NOT NULL columns in column
\* order, embedding being the last of them, then the foreign keys
InsertError(row) ==
  IF ~NotNullColumns(row) THEN "not_null"
  ELSE IF ~EmbeddingNotNull(row) THEN "not_null_embedding"
  ELSE IF ~RowAccepted(row) THEN "foreign_key"
  ELSE "none"

\* the row an INSERT builds: id from the sequence, created_at from the
\* column default, updated_at left NULL
NewRow(id, p, d, e, t, i, v) ==
  [id |-> id, patient_id |-> p, document_id |-> d, extraction_id |-> e,
   chunk_text |-> t, chunk_index |-> i, embedding |-> v,
   created_at |-> now, updated_at |-> NULL]

\* BEFORE UPDATE ... FOR EACH ROW trigger
update_document_chunks_updated_at(row) == [row EXCEPT !.updated_at = now]

\* the foreign key without its ON DELETE CASCADE
CascadeDocumentNone(rows, ds) == rows

\* a cascade that is not restricted to the deleted document
CascadeDocumentAll(rows, ds) == IF ds = {} THEN rows ELSE {}

\* ON DELETE CASCADE of document_chunks.document_id
CascadeDocument(rows, ds) == {c \in rows : c.document_id \notin ds}

\* ON DELETE CASCADE of document_chunks.patient_id
CascadePatient(rows, p) == {c \in rows : c.patient_id # p}

\* the extraction foreign key with ON DELETE CASCADE
SetNullExtractionCascade(rows, e) == {c \in rows : c.extraction_id # e}

\* ON DELETE SET NULL of document_chunks.extraction_id: an UPDATE of each
\* referencing row, so the BEFORE UPDATE trigger runs on it
SetNullExtraction(rows, e) ==
  {IF c.extraction_id = e
     THEN update_document_chunks_updated_at([c EXCEPT !.extraction_id = NULL])
     ELSE c : c \in rows}

NoTransaction ==
  [pc |-> "idle", document_id |-> NULL, count |-> 0, old |-> {},
   deleted |-> {}, inserted |-> {}]

\* ------------------------------------------------------------------ Init
StoreInit ==
  /\ patients = PatientIds
  /\ documents \in {ds \in SUBSET [id : DocumentIds, patient_id : PatientIds \cup {NULL}] :
                      \A d \in DocumentIds : Cardinality({r \in ds : r.id = d}) = 1}
  /\ extractions = ExtractionIds
  /\ document_chunks = {}
  /\ chunk_id_seq = 1
  /\ now = 0
  /\ lastOp = [op |-> "none", id |-> NULL, ok |-> TRUE, error |-> "none", chunks |-> 0]
  /\ txn = NoTransaction
  /\ lastQuery = [patient_id |-> NULL, query_vector |-> NULL, top_k |-> 0,
                  result |-> {}]

\* --------------------------------------------------------------- actions
\* INSERT INTO document_chunks: the values the ingestion supplies for one
\* chunk; for an existing document the patient is the document's patient
InsertChunk(p, d, e, t, i, v) ==
  /\ d \in DocumentIdsPresent => p = PatientOfDocument(d)
  /\ LET row == NewRow(chunk_id_seq, p, d, e, t, i, v) IN
       /\ document_chunks' = IF RowAccepted(row)
                               THEN document_chunks \cup {row}
                               ELSE document_chunks
       /\ lastOp' = [op |-> "insert_chunk", id |-> chunk_id_seq,
                     ok |-> RowAccepted(row), error |-> InsertError(row),
                     chunks |-> IF RowAccepted(row) THEN 1 ELSE 0]
  /\ chunk_id_seq' = chunk_id_seq + 1
  /\ UNCHANGED <<patients, documents, extractions, now, pipelineVars,
                 clientVars>>

\* DELETE FROM documents WHERE id = d
DeleteDocument(d) ==
  /\ d \in DocumentIdsPresent
  /\ documents' = {r \in documents : r.id # d}
  /\ document_chunks' = CascadeDocument(document_chunks, {d})
  /\ lastOp' = [op |-> "delete_document", id |-> d, ok |-> TRUE,
                chunks |-> Cardinality(document_chunks \ document_chunks')]
  /\ UNCHANGED <<patients, extractions, chunk_id_seq, now, pipelineVars,
                 clientVars>>

\* what table documents does with the rows of a deleted patient: either
\* they are deleted with the patient or they stay, unassigned
DocumentsAfterPatientDelete(p, cascade) ==
  IF cascade
    THEN {r \in documents : r.patient_id # p}
    ELSE {IF r.patient_id = p THEN [r EXCEPT !.patient_id = NULL] ELSE r :
            r \in documents}

\* DELETE FROM patients WHERE id = p
DeletePatient(p, cascade) ==
  /\ p \in patients
  /\ patients' = patients \ {p}
  /\ documents' = DocumentsAfterPatientDelete(p, cascade)
  /\ document_chunks' =
       CascadeDocument(CascadePatient(document_chunks, p),
                       DocumentIdsPresent \ {r.id : r \in documents'})
  /\ lastOp' = [op |-> "delete_patient", id |-> p, ok |-> TRUE,
                chunks |-> Cardinality(document_chunks \ document_chunks')]
  /\ UNCHANGED <<extractions, chunk_id_seq, now, pipelineVars,
                 clientVars>>

\* DELETE FROM extractions WHERE id = e
DeleteExtraction(e) ==
  /\ e \in extractions
  /\ extractions' = extractions \ {e}
  /\ document_chunks' = SetNullExtraction(document_chunks, e)
  /\ lastOp' = [op |-> "delete_extraction", id |-> e, ok |-> TRUE,
                chunks |-> Cardinality(document_chunks' \ document_chunks)]
  /\ UNCHANGED <<patients, documents, chunk_id_seq, now, pipelineVars,
                 clientVars>>

\* PUT /documents/{d}/assign: the Assign button is shown only for a
\* document that has no patient; the modal lists the existing patients.
\* The request changes the document's patient; document_chunks.patient_id
\* references patients(id) only, so no row of document_chunks follows.
handleAssignToPatient(d, p) ==
  /\ d \in DocumentIdsPresent
  /\ PatientOfDocument(d) = NULL
  /\ p \in patients
  /\ documents' = {IF r.id = d THEN [r EXCEPT !.patient_id = p] ELSE r :
                     r \in documents}
  /\ lastOp' = [op |-> "assign", id |-> d, ok |-> TRUE, error |-> "none", chunks |-> 0]
  /\ UNCHANGED <<patients, extractions, document_chunks, chunk_id_seq, now,
                 pipelineVars,
                 clientVars>>

\* POST /documents/bulk {document_ids, operation: 'assign', parameters:
\* {patient_id}}: any selected documents, assigned or not
handleBulkOperation(ds, p) ==
  /\ ds # {}
  /\ ds \subseteq DocumentIdsPresent
  /\ p \in patients
  /\ documents' = {IF r.id \in ds THEN [r EXCEPT !.patient_id = p] ELSE r :
                     r \in documents}
  /\ lastOp' = [op |-> "bulk_assign", id |-> p, ok |-> TRUE, error |-> "none", chunks |-> 0]
  /\ UNCHANGED <<patients, extractions, document_chunks, chunk_id_seq, now,
                 pipelineVars,
                 clientVars>>

\* ---------------------------------------- replace_chunks_for_document
\* One transaction: DELETE the document's chunks, INSERT the new set,
\* COMMIT. Its statements act on the transaction's own view; the table
\* other sessions read changes at COMMIT only.

\* the DELETE run outside the transaction: committed at once
ReplaceDeleteAutocommit(d, n) ==
  /\ txn.pc = "idle"
  /\ d \in DocumentIdsPresent
  /\ PatientOfDocument(d) # NULL
  /\ txn' = [pc |-> "deleted", document_id |-> d, count |-> n,
             old |-> ChunksOfDocument(d),
             deleted |-> {c.id : c \in ChunksOfDocument(d)},
             inserted |-> {}]
  /\ document_chunks' = {c \in document_chunks : c.document_id # d}
  /\ UNCHANGED <<patients, documents, extractions, chunk_id_seq, now,
                 lastOp, lastQuery,
                 clientVars>>

\* BEGIN; DELETE FROM document_chunks WHERE document_id = d
ReplaceDelete(d, n) ==
  /\ txn.pc = "idle"
  /\ d \in DocumentIdsPresent
  /\ PatientOfDocument(d) # NULL
  /\ txn' = [pc |-> "deleted", document_id |-> d, count |-> n,
             old |-> ChunksOfDocument(d),
             deleted |-> {c.id : c \in ChunksOfDocument(d)},
             inserted |-> {}]
  /\ UNCHANGED <<storeVars, lastQuery,
                 clientVars>>

\* the rows of a new set of n chunks: indexes 0..n-1, ids from the sequence
NewChunkSet(d, p, e, v, n) ==
  {NewRow(chunk_id_seq + i, p, d, e, 1, i, v) : i \in 0..(n - 1)}

\* INSERT of the new set, inside the transaction
ReplaceInsert(e, v) ==
  /\ txn.pc = "deleted"
  /\ txn' = [txn EXCEPT !.pc = "inserted",
                        !.inserted = NewChunkSet(txn.document_id,
                                       PatientOfDocument(txn.document_id),
                                       e, v, txn.count)]
  /\ chunk_id_seq' = chunk_id_seq + txn.count
  /\ UNCHANGED <<patients, documents, extractions, document_chunks, now,
                 lastOp, lastQuery,
                 clientVars>>

\* COMMIT: the constraints of every inserted row must hold of the tables as
\* they are now, or the whole transaction is rolled back
ReplaceCommit ==
  /\ txn.pc = "inserted"
  /\ LET ok == \A r \in txn.inserted : RowAccepted(r) IN
       /\ document_chunks' =
            IF ok THEN {c \in document_chunks : c.id \notin txn.deleted}
                         \cup txn.inserted
                  ELSE document_chunks
       /\ lastOp' = [op |-> "replace_chunks", id |-> txn.document_id,
                     ok |-> ok,
                     error |-> IF ok THEN "none" ELSE "rolled_back",
                     chunks |-> IF ok THEN txn.count ELSE 0]
  /\ txn' = NoTransaction
  /\ UNCHANGED <<patients, documents, extractions, chunk_id_seq, now,
                 lastQuery,
                 clientVars>>

\* --------------------------------------------------------- query_nearest
\* distance between an embedding and the query vector
Distance(v, q) == IF v >= q THEN v - q ELSE q - v

\* o ranks before c: nearer, or as near and stored later
RanksBefore(o, c, q) ==
  \/ Distance(o.embedding, q) < Distance(c.embedding, q)
  \/ /\ Distance(o.embedding, q) = Distance(c.embedding, q)
     /\ o.id > c.id

\* a search over the whole table, the patient scope left out
QueryNearestUnscoped(p, q, k) ==
  {c \in document_chunks :
     Cardinality({o \in document_chunks : RanksBefore(o, c, q)}) < k}

\* the top_k nearest chunks among those of the patient
QueryNearest(p, q, k) ==
  LET candidates == ChunksOfPatient(p) IN
    {c \in candidates :
       Cardinality({o \in candidates : RanksBefore(o, c, q)}) < k}

query_nearest(p, q, k) ==
  /\ lastQuery' = [patient_id |-> p, query_vector |-> q, top_k |-> k,
                   result |-> QueryNearest(p, q, k)]
  /\ UNCHANGED <<storeVars, txn,
                 clientVars>>

\* ------------------------------------------------- the chat components
\* the texts a user can type: characters are " " (white space), letters,
\* and "q", the one-letter text of a quick question of the widget
Inputs == {<<>>, <<" ">>, <<"a">>, <<" ", "a", " ">>, <<"b">>, <<"q">>}

\* top_k?: number of RAGChatRequest: a body either has the field or not
OptionalTopK(body) == IF "top_k" \in DOMAIN body THEN {body.top_k} ELSE {}

RECURSIVE TrimStart(_)
TrimStart(s) == IF s # <<>> /\ Head(s) = " " THEN TrimStart(Tail(s)) ELSE s

RECURSIVE TrimEnd(_)
TrimEnd(s) ==
  IF s # <<>> /\ s[Len(s)] = " " THEN TrimEnd(SubSeq(s, 1, Len(s) - 1)) ELSE s

\* String.prototype.trim
trim(s) == TrimEnd(TrimStart(s))

QUICK_QUESTIONS == {<<"q">>}
PREDEFINED_ANSWERS == [t \in QUICK_QUESTIONS |-> <<"p">>]

\* the answers the language model can give
Answers == {<<"x">>}

userTurn(text) == [role |-> "user", content |-> text]

\* an answer stored as a turn of the user
assistantTurnAsUser(text) == [role |-> "user", content |-> text]

\* { role: 'assistant', content }
assistantTurn(text) == [role |-> "assistant", content |-> text]

NoRequest == [question |-> <<>>, top_k |-> 0, chat_history |-> <<>>,
              origin |-> "none"]
NoResponse == [status |-> "none", answer |-> <<>>]

\* no turn of the orchestrator under way
NoTurn ==
  [status |-> "idle", embed_calls |-> 0, llm_calls |-> 0, top_k |-> 0,
   retrieved |-> <<>>,
   context |-> [chunks |-> <<>>, history |-> <<>>, question |-> <<>>]]

NoChunker ==
  [pc |-> "none", length |-> 0, size |-> 1, overlap |-> 0, start |-> 0,
   chunks |-> <<>>]

NoAssembly ==
  [pc |-> "none", chunks |-> <<>>, history |-> <<>>, question |-> <<>>,
   result |-> [chunks |-> <<>>, history |-> <<>>, question |-> <<>>]]

RAG_TOP_K == 6

\* top_k: body.top_k ?? RAG_TOP_K, with every given number passed on as is
TopKOfBodyGiven(body) ==
  IF OptionalTopK(body) = {} THEN 0 ELSE body.top_k

TopKOfBody(body) ==
  IF OptionalTopK(body) = {} THEN RAG_TOP_K ELSE body.top_k

\* the payload sendRAGChat posts to /patients/{patientId}/rag/chat; origin
\* is the caller that awaits the reply
sendRAGChat(body, origin) ==
  [question |-> trim(body.question),
   top_k |-> TopKOfBody(body),
   chat_history |-> body.chat_history,
   origin |-> origin]

\* the chat_history PatientChatbot passes: [...messages, userTurn]
ChatHistoryOfPatientChatbot(msgs, turn) == Append(msgs, turn)

\* the chat_history MediKeepChatWidget passes: messages
ChatHistoryOfWidget(msgs, turn) == msgs

ChatHistoryOf(msgs, turn) ==
  IF component = "PatientChatbot" THEN ChatHistoryOfPatientChatbot(msgs, turn)
  ELSE ChatHistoryOfWidget(msgs, turn)

\* the text field: disabled={loading || !hasDocuments}
InputEnabled == ~(loading \/ ~hasDocuments)

\* the send button: disabled={loading || !input.trim() || !hasDocuments}
SendEnabled == ~(loading \/ trim(input) = <<>> \/ ~hasDocuments)

\* onChange of the text field
setInput(text) ==
  /\ InputEnabled
  /\ input' = text
  /\ chatEvent' = [name |-> "setInput", outcome |-> "typed"]
  /\ UNCHANGED <<component, hasDocuments, messages, loading, request,
                 response, priorMessages, priorInput, orchestrator,
                 offChatVars>>

\* the early return of handleSend that sends anything typed, blank or not
QuestionRejectedNever(text) == FALSE

\* the early return of handleSend: if (!question || loading) return
QuestionRejected(text) == text = <<>> \/ loading

\* handleSend of either component for the typed text or, in the widget, for
\* a quick question; typed is TRUE when no question argument was passed
handleSend(event, source, typed) ==
  LET text == trim(source)
      turn == userTurn(text) IN
    /\ UNCHANGED <<component, hasDocuments, response, orchestrator,
                   offChatVars>>
    /\ IF QuestionRejected(text)
       THEN /\ chatEvent' = [name |-> event, outcome |-> "ignored"]
            /\ UNCHANGED <<messages, input, loading, request, priorMessages,
                           priorInput>>
       ELSE
         /\ input' = IF typed THEN <<>> ELSE input
         /\ priorMessages' = messages
         /\ priorInput' = source
         /\ IF (component = "MediKeepChatWidget" /\ text \in DOMAIN PREDEFINED_ANSWERS)
            THEN /\ messages' = messages \o
                       <<turn, assistantTurn(PREDEFINED_ANSWERS[text])>>
                 /\ chatEvent' = [name |-> event, outcome |-> "predefined"]
                 /\ UNCHANGED <<loading, request>>
            ELSE /\ messages' = Append(messages, turn)
                 /\ loading' = TRUE
                 /\ request' = sendRAGChat(
                                 [question |-> text,
                                  chat_history |-> ChatHistoryOf(messages, turn)],
                                 "handleSend")
                 /\ chatEvent' = [name |-> event, outcome |-> "sent"]

\* Enter in the text field: handleKeyDown calls handleSend()
handleKeyDown ==
  /\ InputEnabled
  /\ handleSend("handleKeyDown", input, TRUE)

\* a click on the send button: handleSend()
onClickSend ==
  /\ SendEnabled
  /\ handleSend("onClickSend", input, TRUE)

\* a click on a quick question of the widget: handleSend(q); the buttons
\* carry no disabled attribute
onClickQuickQuestion(q) ==
  /\ component = "MediKeepChatWidget"
  /\ handleSend("onClickQuickQuestion", q, FALSE)

\* the catch block that leaves the list as it is
RemoveFailedTurnNot(msgs) == msgs

\* the catch block: setMessages((prev) => prev.slice(0, -1))
RemoveFailedTurn(msgs) == SubSeq(msgs, 1, Len(msgs) - 1)

\* the success branch that shows the answer in place of the question
AppendAnswerOverQuestion(msgs, answer) ==
  Append(SubSeq(msgs, 1, Len(msgs) - 1), assistantTurn(answer))

\* setMessages((prev) => [...prev, { role: 'assistant', content: answer }])
AppendAnswer(msgs, answer) == Append(msgs, assistantTurn(answer))

\* the continuation of handleSend once sendRAGChat has settled: the try
\* branch or the catch block, and then finally setLoading(false)
handleSendSettled ==
  /\ request.origin = "handleSend"
  /\ response # NoResponse
  /\ IF response.status = "ok"
     THEN /\ messages' = AppendAnswer(messages, response.answer)
          /\ chatEvent' = [name |-> "handleSendSettled", outcome |-> "answered"]
     ELSE /\ messages' = RemoveFailedTurn(messages)
          /\ chatEvent' = [name |-> "handleSendSettled", outcome |-> "failed"]
  /\ loading' = FALSE
  /\ request' = NoRequest
  /\ response' = NoResponse
  /\ orchestrator' = NoTurn
  /\ UNCHANGED <<component, hasDocuments, input, priorMessages, priorInput,
                 offChatVars>>

\* another caller of the service: sendRAGChat(patientId, body, accessToken)
callSendRAGChat(body) ==
  /\ request = NoRequest
  /\ request' = sendRAGChat(body, "caller")
  /\ chatEvent' = [name |-> "callSendRAGChat",
                   outcome |-> IF OptionalTopK(body) = {} THEN "sent_without_top_k"
                               ELSE "sent_with_top_k"]
  /\ UNCHANGED <<component, hasDocuments, messages, input, loading, response,
                 priorMessages, priorInput, orchestrator, offChatVars>>

\* the promise that caller holds settles
callSendRAGChatSettled ==
  /\ request.origin = "caller"
  /\ response # NoResponse
  /\ request' = NoRequest
  /\ response' = NoResponse
  /\ orchestrator' = NoTurn
  /\ chatEvent' = [name |-> "callSendRAGChatSettled", outcome |-> "settled"]
  /\ UNCHANGED <<component, hasDocuments, messages, input, loading,
                 priorMessages, priorInput, offChatVars>>

\* the parent renders the component again with another hasDocuments
setHasDocuments(b) ==
  /\ hasDocuments # b
  /\ hasDocuments' = b
  /\ chatEvent' = [name |-> "setHasDocuments", outcome |-> "rendered"]
  /\ UNCHANGED <<component, messages, input, loading, request, response,
                 priorMessages, priorInput, orchestrator, offChatVars>>

ChatIdle ==
  /\ messages = <<>>
  /\ input = <<>>
  /\ loading = FALSE
  /\ request = NoRequest
  /\ response = NoResponse
  /\ chatEvent = [name |-> "mount", outcome |-> "rendered"]
  /\ priorMessages = <<>>
  /\ priorInput = <<>>
  /\ rendered = [loading |-> FALSE, input |-> <<>>, messages |-> <<>>]
  /\ pending = 0

\* ------------------------------------------------------ the api client
RequestIds == {1, 2, 3}

\* a request the application has not made yet
NoApiRequest ==
  [pc |-> "idle", _retry |-> FALSE, authorization |-> NULL, sends |-> 0]

ApiIdle ==
  /\ isRefreshing = FALSE
  /\ failedQueue = <<>>
  /\ requests = [r \in RequestIds |-> NoApiRequest]
  /\ location = "app"
  /\ apiEvent = [name |-> "load", request |-> 0, outcome |-> "none"]

\* a request interceptor that leaves the header of the request as it is
AuthorizedAsBefore(request_, storage) ==
  [request_ EXCEPT !.pc = "sent", !.sends = @ + 1]

\* the request interceptor: the Authorization header is the stored token
Authorized(request_, storage) ==
  [request_ EXCEPT !.pc = "sent", !.authorization = storage.access_token,
                   !.sends = @ + 1]

\* api(config): a request leaves through the request interceptor
apiRequest(r) ==
  /\ requests[r].pc = "idle"
  /\ requests' = [requests EXCEPT ![r] = Authorized(@, localStorage)]
  /\ apiEvent' = [name |-> "apiRequest", request |-> r, outcome |-> "sent"]
  /\ UNCHANGED <<isRefreshing, failedQueue, localStorage, location>>
  /\ UNCHANGED <<storeVars, pipelineVars, chatVars, pageVars,
                 orchestrator, assembly, chunker>>

\* the response interceptor on a response: (response) => response
responseFulfilled(r) ==
  /\ requests[r].pc = "sent"
  /\ requests' = [requests EXCEPT ![r].pc = "done"]
  /\ apiEvent' = [name |-> "responseFulfilled", request |-> r,
                  outcome |-> "done"]
  /\ UNCHANGED <<isRefreshing, failedQueue, localStorage, location>>
  /\ UNCHANGED <<storeVars, pipelineVars, chatVars, pageVars,
                 orchestrator, assembly, chunker>>

\* clearAuthAndRedirect: the three items are removed
ClearedStorage == [access_token |-> NULL, refresh_token |-> NULL, user |-> NULL]

\* a test of isRefreshing that lets every request start its own refresh
MustWaitNever(refreshing) == FALSE

\* if (isRefreshing): the request has to wait for the refresh under way
MustWait(refreshing) == refreshing

\* the response interceptor on an error with the given status, up to the
\* await of the refresh
responseRejected(r, status) ==
  /\ requests[r].pc = "sent"
  /\ apiEvent' = [name |-> "responseRejected", request |-> r,
                  outcome |-> IF status = 401 THEN "401" ELSE "error"]
  /\ IF status = 401 /\ ~requests[r]._retry
     THEN IF MustWait(isRefreshing)
          THEN /\ failedQueue' = Append(failedQueue, r)
               /\ requests' = [requests EXCEPT ![r].pc = "queued"]
               /\ UNCHANGED <<isRefreshing, localStorage, location>>
          ELSE /\ isRefreshing' = TRUE
               /\ IF localStorage.refresh_token = NULL
                  THEN /\ localStorage' = ClearedStorage
                       /\ location' = "/clinic/login"
                       /\ requests' = [requests EXCEPT ![r]._retry = TRUE,
                                                       ![r].pc = "rejected"]
                  ELSE /\ requests' = [requests EXCEPT ![r]._retry = TRUE,
                                                       ![r].pc = "refreshing"]
                       /\ UNCHANGED <<localStorage, location>>
               /\ UNCHANGED failedQueue
     ELSE /\ requests' = [requests EXCEPT ![r].pc = "rejected"]
          /\ UNCHANGED <<isRefreshing, failedQueue, localStorage, location>>
  /\ UNCHANGED <<storeVars, pipelineVars, chatVars, pageVars,
                 orchestrator, assembly, chunker>>

\* a processQueue that resolves every queued promise, error or not
ProcessQueueResolving(reqs, queue, rejected, storage) ==
  [r \in RequestIds |->
     IF \E i \in 1..Len(queue) : queue[i] = r
     THEN Authorized(reqs[r], storage)
     ELSE reqs[r]]

\* processQueue: every queued promise is rejected, or resolved, and then
\* its request is sent again
ProcessQueue(reqs, queue, rejected, storage) ==
  [r \in RequestIds |->
     IF \E i \in 1..Len(queue) : queue[i] = r
     THEN IF rejected THEN [reqs[r] EXCEPT !.pc = "rejected"]
          ELSE Authorized(reqs[r], storage)
     ELSE reqs[r]]

\* the response interceptor resumed when the POST /auth/refresh of request
\* r settles: with an access_token, with a body without one, or with an
\* error; then the finally block
refreshSettled(r, outcome, token) ==
  /\ requests[r].pc = "refreshing"
  /\ apiEvent' = [name |-> "refreshSettled", request |-> r,
                  outcome |-> outcome]
  /\ LET storage ==
           IF outcome = "access_token"
           THEN [localStorage EXCEPT !.access_token = token]
           ELSE IF outcome = "error" THEN ClearedStorage
           ELSE localStorage
         settled == outcome # "no_access_token"
         queued == IF settled
                   THEN ProcessQueue(requests, failedQueue, outcome = "error",
                                     storage)
                   ELSE requests
     IN /\ localStorage' = storage
        /\ failedQueue' = IF settled THEN <<>> ELSE failedQueue
        /\ requests' = [queued EXCEPT ![r] =
                          IF outcome = "access_token"
                          THEN Authorized(@, storage)
                          ELSE [@ EXCEPT !.pc = "rejected"]]
        /\ location' = IF outcome = "error" THEN "/clinic/login" ELSE location
  /\ isRefreshing' = FALSE
  /\ UNCHANGED <<storeVars, pipelineVars, chatVars, pageVars,
                 orchestrator, assembly, chunker>>

\* ---------------------------------------------------------- the chunker
\* a step of size minus overlap, whatever its sign
ChunkStepNaive(size, overlap) == size - overlap

\* the distance between the starts of two chunks: size minus overlap, and
\* at least one
ChunkStep(size, overlap) ==
  IF size - overlap >= 1 THEN size - overlap ELSE 1

ChunkEnd(start, size, length) ==
  IF start + size < length THEN start + size ELSE length

\* the chunker rejects a text that is empty
chunkRejected ==
  /\ chunker.pc = "start"
  /\ chunker.length = 0
  /\ chunker' = [chunker EXCEPT !.pc = "InvalidInput"]
  /\ UNCHANGED <<storeVars, pipelineVars, chatVars, pageVars,
                 orchestrator, assembly, apiVars>>

\* one turn of the loop of the chunker: the chunk at start is emitted, and
\* the loop ends when that chunk reaches the end of the text
chunkNext ==
  /\ chunker.pc \in {"start", "loop"}
  /\ chunker.length > 0
  /\ LET end == ChunkEnd(chunker.start, chunker.size, chunker.length)
         chunk == [chunk_index |-> Len(chunker.chunks),
                   chunk_start |-> chunker.start, chunk_end |-> end]
     IN chunker' = [chunker EXCEPT
                      !.chunks = Append(@, chunk),
                      !.pc = IF end = chunker.length THEN "done" ELSE "loop",
                      !.start = IF end = chunker.length THEN @
                                ELSE @ + ChunkStep(chunker.size,
                                                   chunker.overlap)]
  /\ UNCHANGED <<storeVars, pipelineVars, chatVars, pageVars,
                 orchestrator, assembly, apiVars>>

\* ------------------------------------------------ the chat orchestrator
\* the patient the component was mounted for
patientId == 1

TOP_K_CAP == 20
MaxContextSize == 4
NO_DOCUMENTS_ANSWER == <<"n">>

\* the embedder: a fixed vector for each text
Embed(text) == IF Len(text) % 2 = 1 THEN 1 ELSE 2

\* the size a chunk and a turn take in the context
ChunkSize(c) == c.text + 1
TurnSize(t) == Len(t.content)

RECURSIVE ChunksSize(_)
ChunksSize(chunks) ==
  IF chunks = <<>> THEN 0
  ELSE ChunkSize(Head(chunks)) + ChunksSize(Tail(chunks))

RECURSIVE HistorySize(_)
HistorySize(history) ==
  IF history = <<>> THEN 0
  ELSE TurnSize(Head(history)) + HistorySize(Tail(history))

ContextSize(chunks, history, question) ==
  ChunksSize(chunks) + HistorySize(history) + Len(question)

\* an assembly that drops the lowest-ranked chunks before any history turn
RECURSIVE AssembleContextChunksFirst(_, _, _, _)
AssembleContextChunksFirst(chunks, history, question, limit) ==
  IF ContextSize(chunks, history, question) <= limit
  THEN [chunks |-> chunks, history |-> history, question |-> question]
  ELSE IF chunks # <<>>
  THEN AssembleContextChunksFirst(SubSeq(chunks, 1, Len(chunks) - 1),
                                  history, question, limit)
  ELSE IF history # <<>>
  THEN AssembleContextChunksFirst(chunks, Tail(history), question, limit)
  ELSE [chunks |-> chunks, history |-> history, question |-> question]

\* step 5: while the context is over the limit drop the oldest history
\* turn, then the lowest-ranked chunk; the question stays
RECURSIVE AssembleContext(_, _, _, _)
AssembleContext(chunks, history, question, limit) ==
  IF ContextSize(chunks, history, question) <= limit
  THEN [chunks |-> chunks, history |-> history, question |-> question]
  ELSE IF history # <<>>
  THEN AssembleContext(chunks, Tail(history), question, limit)
  ELSE IF chunks # <<>>
  THEN AssembleContext(SubSeq(chunks, 1, Len(chunks) - 1),
                       history, question, limit)
  ELSE [chunks |-> chunks, history |-> history, question |-> question]

NoContext == [chunks |-> <<>>, history |-> <<>>, question |-> <<>>]

\* step 5 on its own inputs
assembleContext ==
  /\ assembly.pc = "start"
  /\ assembly' = [assembly EXCEPT
                    !.pc = "done",
                    !.result = AssembleContext(assembly.chunks,
                                               assembly.history,
                                               assembly.question,
                                               MaxContextSize)]
  /\ UNCHANGED <<storeVars, pipelineVars, chatVars, pageVars,
                 orchestrator, chunker, apiVars>>

\* the retrieved chunks in retrieval order, each with its id and its text
Ranked(rows, q) ==
  [i \in 1..Cardinality(rows) |->
     LET c == CHOOSE r \in rows :
                Cardinality({o \in rows : RanksBefore(o, r, q)}) = i - 1
     IN [id |-> c.id, text |-> c.chunk_text]]

\* the upper bound of top_k
CapTopK(k) == IF k > TOP_K_CAP THEN TOP_K_CAP ELSE k

\* step 1: the question is empty after trimming, or top_k is not positive
InvalidInput(payload) ==
  trim(payload.question) = <<>> \/ payload.top_k <= 0

\* step 4 left out: the language model is called on an empty context too
ShortCircuitNever(retrieved) == FALSE

\* step 4: nothing retrieved
ShortCircuit(retrieved) == retrieved = <<>>

\* one turn of the orchestrator on the request in flight; fault is the
\* external call that fails in this turn, answer what the model says
chat(fault, answer) ==
  /\ request.origin # "none"
  /\ response = NoResponse
  /\ LET question == trim(request.question)
         k == CapTopK(request.top_k)
         retrieved == Ranked(QueryNearest(patientId, Embed(question), k),
                             Embed(question))
         context == AssembleContext(retrieved, request.chat_history,
                                    question, MaxContextSize)
     IN
       IF InvalidInput(request)
       THEN /\ orchestrator' = [NoTurn EXCEPT !.status = "InvalidInput"]
            /\ response' = [status |-> "InvalidInput", answer |-> <<>>]
       ELSE IF fault = "embedder"
       THEN /\ orchestrator' = [NoTurn EXCEPT !.status = "TransientFailure",
                                              !.embed_calls = 1]
            /\ response' = [status |-> "TransientFailure", answer |-> <<>>]
       ELSE IF ShortCircuit(retrieved)
       THEN /\ orchestrator' = [NoTurn EXCEPT !.status = "ok",
                                              !.embed_calls = 1,
                                              !.top_k = k]
            /\ response' = [status |-> "ok", answer |-> NO_DOCUMENTS_ANSWER]
       ELSE IF fault = "model"
       THEN /\ orchestrator' = [status |-> "GenerationFailure",
                                embed_calls |-> 1, llm_calls |-> 1,
                                top_k |-> k, retrieved |-> retrieved,
                                context |-> context]
            /\ response' = [status |-> "GenerationFailure", answer |-> <<>>]
       ELSE /\ orchestrator' = [status |-> "ok",
                                embed_calls |-> 1, llm_calls |-> 1,
                                top_k |-> k, retrieved |-> retrieved,
                                context |-> context]
            /\ response' = [status |-> "ok", answer |-> answer]
  /\ UNCHANGED <<component, hasDocuments, messages, input, loading, request,
                 chatEvent, priorMessages, priorInput, offChatVars>>

\* ------------------------------------- the chat handlers of one render
\* what the chat handlers and the document upload leave alone
offPageVars == <<storeVars, pipelineVars, orchestrator, assembly, chunker,
                 apiVars>>

\* the state a render of the chat component hands to its handlers
Rendered == [loading |-> loading, input |-> input, messages |-> messages]

\* React commits the render of the state updates made since the last one
commitRender ==
  /\ rendered # Rendered
  /\ rendered' = Rendered
  /\ UNCHANGED <<chatVars, pending, uploadVars, offPageVars>>

\* onChange of the text field, enabled as the committed render left it:
\* setInput(e.target.value)
onChange(text) ==
  /\ ~(rendered.loading \/ ~hasDocuments)
  /\ input' = text
  /\ UNCHANGED <<component, hasDocuments, messages, loading, request,
                 response, chatEvent, priorMessages, priorInput, renderVars,
                 uploadVars, offPageVars>>

\* handleSend as the committed render created it: input, loading and
\* messages are the values of that render, the updates are functional
handleSendOfRender(event, source, typed) ==
  LET text == trim(source)
      turn == userTurn(text) IN
    /\ UNCHANGED <<component, hasDocuments, request, response, priorMessages,
                   priorInput, rendered, uploadVars, offPageVars>>
    /\ IF text = <<>> \/ rendered.loading
       THEN /\ chatEvent' = [name |-> event, outcome |-> "ignored"]
            /\ UNCHANGED <<messages, input, loading, pending>>
       ELSE
         /\ input' = IF typed THEN <<>> ELSE input
         /\ IF (component = "MediKeepChatWidget" /\ text \in DOMAIN PREDEFINED_ANSWERS)
            THEN /\ messages' = messages \o
                       <<turn, assistantTurn(PREDEFINED_ANSWERS[text])>>
                 /\ chatEvent' = [name |-> event, outcome |-> "predefined"]
                 /\ UNCHANGED <<loading, pending>>
            ELSE /\ messages' = Append(messages, turn)
                 /\ loading' = TRUE
                 /\ pending' = pending + 1
                 /\ chatEvent' = [name |-> event, outcome |-> "sent"]

\* Enter in the text field of the committed render
handleKeyDownOfRender ==
  /\ ~(rendered.loading \/ ~hasDocuments)
  /\ handleSendOfRender("handleKeyDown", rendered.input, TRUE)

\* a click on the send button of the committed render
onClickSendOfRender ==
  /\ ~(rendered.loading \/ trim(rendered.input) = <<>> \/ ~hasDocuments)
  /\ handleSendOfRender("onClickSend", rendered.input, TRUE)

\* a click on a quick question of the widget
onClickQuickQuestionOfRender(q) ==
  /\ component = "MediKeepChatWidget"
  /\ handleSendOfRender("onClickQuickQuestion", q, FALSE)

\* the continuation of one handleSend call once its sendRAGChat has settled
handleSendSettledOfRender(ok, answer) ==
  /\ pending > 0
  /\ IF ok
     THEN /\ messages' = AppendAnswer(messages, answer)
          /\ chatEvent' = [name |-> "handleSendSettled", outcome |-> "answered"]
     ELSE /\ messages' = RemoveFailedTurn(messages)
          /\ chatEvent' = [name |-> "handleSendSettled", outcome |-> "failed"]
  /\ loading' = FALSE
  /\ pending' = pending - 1
  /\ UNCHANGED <<component, hasDocuments, input, request, response,
                 priorMessages, priorInput, rendered, uploadVars,
                 offPageVars>>

\* ---------------------------------------------------- the document upload
MaxFiles == 2
MaxCalls == 3

\* the calls of handleUpload, in the order they are made
CallIds == 1..MaxCalls

\* a call of handleUpload not made yet, and one that has returned
NoUpload == [pc |-> "idle", files |-> 0, i |-> 0, uploadProgress |-> <<>>,
             statuses |-> <<>>]
UploadDone == [NoUpload EXCEPT !.pc = "done"]

\* const uploads = files.map(file => ({ id, file, progress, status }))
Uploads(call, files) ==
  [k \in 1..files |-> [id |-> <<call, k>>, status |-> "pending"]]

\* setUploadProgress(prev => prev.map(u => u.id === id ? {...u, status} : u))
SetStatus(progress, id, status) ==
  [k \in 1..Len(progress) |->
     IF progress[k].id = id THEN [progress[k] EXCEPT !.status = status]
     ELSE progress[k]]

\* uploadProgress.every(u => u.status === 'success')
AllSuccess(progress) ==
  \A k \in 1..Len(progress) : progress[k].status = "success"

UploadIdle ==
  /\ uploadProgress = <<>>
  /\ isUploading = FALSE
  /\ upload = [c \in CallIds |-> NoUpload]
  /\ uploadEvent = [name |-> "mount", call |-> 0, toasts |-> {},
                    onUploadComplete |-> FALSE, statuses |-> <<>>]

\* handleUpload(files, metadata) up to its first await: the list of the
\* batch replaces the state, the first file is marked uploading and posted;
\* uploadProgress of the call is the value of the render that created it
handleUpload(call, files) ==
  /\ upload[call].pc = "idle"
  /\ \A c \in CallIds : c < call => upload[c].pc # "idle"
  /\ isUploading' = TRUE
  /\ uploadProgress' = SetStatus(Uploads(call, files), <<call, 1>>, "uploading")
  /\ upload' = [upload EXCEPT ![call] =
                  [pc |-> "awaiting", files |-> files, i |-> 1,
                   uploadProgress |-> uploadProgress, statuses |-> <<>>]]
  /\ uploadEvent' = [name |-> "handleUpload", call |-> call, toasts |-> {},
                     onUploadComplete |-> FALSE, statuses |-> <<>>]
  /\ UNCHANGED <<chatVars, renderVars, offPageVars>>

\* the continuation of a call once api.post has settled for file i: the
\* status of the file, then the next file or, after the last one, the
\* allSuccess check and finally setIsUploading(false)
postSettled(call, ok) ==
  LET frame == upload[call]
      status == IF ok THEN "success" ELSE "error"
      failed == IF ok THEN {} ELSE {"error"}
      settled == SetStatus(uploadProgress, <<call, frame.i>>, status)
      statuses == Append(frame.statuses, status)
      allSuccess == AllSuccess(frame.uploadProgress) IN
    /\ frame.pc = "awaiting"
    /\ IF frame.i < frame.files
       THEN /\ uploadProgress' =
                 SetStatus(settled, <<call, frame.i + 1>>, "uploading")
            /\ upload' = [upload EXCEPT ![call].i = @ + 1,
                                        ![call].statuses = statuses]
            /\ uploadEvent' = [name |-> "postSettled", call |-> call,
                               toasts |-> failed, onUploadComplete |-> FALSE,
                               statuses |-> statuses]
            /\ UNCHANGED isUploading
       ELSE /\ uploadProgress' = IF allSuccess THEN <<>> ELSE settled
            /\ upload' = [upload EXCEPT ![call] = UploadDone]
            /\ uploadEvent' =
                 [name |-> "handleUploadEnd", call |-> call,
                  toasts |-> failed \cup
                               (IF allSuccess THEN {"success"} ELSE {}),
                  onUploadComplete |-> allSuccess, statuses |-> statuses]
            /\ isUploading' = FALSE
    /\ UNCHANGED <<chatVars, renderVars, offPageVars>>

\* ------------------------------------------------------------------ Init
ClientInit ==
  /\ component = "PatientChatbot"
  /\ hasDocuments = TRUE
  /\ ChatIdle
  /\ orchestrator = NoTurn
  /\ assembly = NoAssembly
  /\ chunker = NoChunker
  /\ ApiIdle
  /\ UploadIdle
  /\ localStorage = [access_token |-> 1, refresh_token |-> 1, user |-> 1]

Init == StoreInit /\ ClientInit

\* ------------------------------------------- the store and its callers
\* the NOT NULL columns a caller has to supply
Columns == {"patient_id", "document_id", "chunk_text", "chunk_index",
            "embedding"}

\* the value an INSERT carries for a column: NULL for the one left out
Supplied(value, column, missing) == IF column = missing THEN NULL ELSE value


Next ==
  \/ /\ chunk_id_seq <= MaxChunks
     /\ \E p \in PatientIds, d \in DocumentIds, e \in ExtractionIds \cup {NULL},
           i \in Indexes, missing \in Columns \cup {"none"} :
           InsertChunk(Supplied(p, "patient_id", missing),
                       Supplied(d, "document_id", missing),
                       e,
                       Supplied(1, "chunk_text", missing),
                       Supplied(i, "chunk_index", missing),
                       Supplied(1, "embedding", missing))
  \/ \E d \in DocumentIds : DeleteDocument(d)
  \/ \E p \in PatientIds, cascade \in BOOLEAN : DeletePatient(p, cascade)
  \/ \E e \in ExtractionIds : DeleteExtraction(e)
  \/ \E d \in DocumentIds, p \in PatientIds : handleAssignToPatient(d, p)
  \/ \E ds \in SUBSET DocumentIds, p \in PatientIds : handleBulkOperation(ds, p)

Spec == Init /\ [][Next]_vars

\* ----------------------------- re-indexing against document deletion
MaxReplaceIds == 4
NewSetSizes == {1, 2}

NextReplace ==
  \/ \E d \in DocumentIds, n \in NewSetSizes :
       /\ chunk_id_seq + n - 1 <= MaxReplaceIds
       /\ ReplaceDelete(d, n)
  \/ \E e \in ExtractionIds \cup {NULL} : ReplaceInsert(e, 1)
  \/ ReplaceCommit
  \/ \E d \in DocumentIds : DeleteDocument(d)
  \/ \E e \in ExtractionIds : DeleteExtraction(e)

SpecReplace == Init /\ [][NextReplace]_vars

\* ------------------------------------------------------------ retrieval
TopKs == {1, 2}

NextQuery ==
  \/ /\ chunk_id_seq <= MaxChunks
     /\ \E p \in PatientIds, d \in DocumentIds, v \in Vectors :
           InsertChunk(p, d, NULL, 1, 0, v)
  \/ \E d \in DocumentIds : DeleteDocument(d)
  \/ \E ds \in SUBSET DocumentIds, p \in PatientIds : handleBulkOperation(ds, p)
  \/ \E p \in PatientIds, q \in Vectors, k \in TopKs : query_nearest(p, q, k)

SpecQuery == Init /\ [][NextQuery]_vars

\* ----------------------------------------------------- the chat, end to end
MaxMessages == 4
Faults == {"none", "embedder", "model"}

\* the bodies another caller passes to sendRAGChat: any text as question
\* and top_k given or not
GivenTopKs == {-1, 0, 1, 20, 21}
PlainBodies == [question : {<<" ">>, <<" ", "a", " ">>}, chat_history : {<<>>}]
Bodies ==
  [question : Inputs, chat_history : {<<>>}]
    \cup [question : Inputs, chat_history : {<<>>}, top_k : GivenTopKs]

\* the chunks indexed when the component is mounted, in the order they
\* were stored: one of another patient, then up to two of the patient of
\* the component
ChatChunks ==
  {[id |-> 1, patient_id |-> 2, document_id |-> 2, extraction_id |-> NULL,
    chunk_text |-> 1, chunk_index |-> 0, embedding |-> 1,
    created_at |-> 0, updated_at |-> NULL],
   [id |-> 2, patient_id |-> 1, document_id |-> 1, extraction_id |-> NULL,
    chunk_text |-> 1, chunk_index |-> 0, embedding |-> 1,
    created_at |-> 0, updated_at |-> NULL],
   [id |-> 3, patient_id |-> 1, document_id |-> 1, extraction_id |-> NULL,
    chunk_text |-> 1, chunk_index |-> 1, embedding |-> 2,
    created_at |-> 0, updated_at |-> NULL]}

StoreIndexed ==
  /\ patients = PatientIds
  /\ documents = {[id |-> 1, patient_id |-> 1], [id |-> 2, patient_id |-> 2]}
  /\ extractions = ExtractionIds
  /\ document_chunks \in {rows \in SUBSET ChatChunks :
                           \A c \in ChatChunks :
                             c.id > 1 /\ c \in rows
                               => \E o \in rows : o.id = c.id - 1}
  /\ chunk_id_seq = 4
  /\ now = 0
  /\ lastOp = [op |-> "none", id |-> NULL, ok |-> TRUE, error |-> "none", chunks |-> 0]
  /\ txn = NoTransaction
  /\ lastQuery = [patient_id |-> NULL, query_vector |-> NULL, top_k |-> 0,
                  result |-> {}]

InitChat ==
  /\ StoreIndexed
  /\ component \in {"PatientChatbot", "MediKeepChatWidget"}
  /\ hasDocuments \in BOOLEAN
  /\ ChatIdle
  /\ orchestrator = NoTurn
  /\ assembly = NoAssembly
  /\ chunker = NoChunker
  /\ ApiIdle
  /\ UploadIdle
  /\ localStorage = [access_token |-> 1, refresh_token |-> 1, user |-> 1]

NextChat ==
  \/ \E text \in Inputs : setInput(text)
  \/ Len(messages) + 2 <= MaxMessages /\ handleKeyDown
  \/ Len(messages) + 2 <= MaxMessages /\ onClickSend
  \/ \E q \in QUICK_QUESTIONS :
       Len(messages) + 2 <= MaxMessages /\ onClickQuickQuestion(q)
  \/ \E fault \in Faults, answer \in Answers : chat(fault, answer)
  \/ handleSendSettled
  \/ \E body \in PlainBodies : callSendRAGChat(body)
  \/ callSendRAGChatSettled
  \/ \E b \in BOOLEAN : setHasDocuments(b)

SpecChat == InitChat /\ [][NextChat]_vars

\* --------------------------------------- the service and the orchestrator
InitService ==
  /\ StoreIndexed
  /\ component \in {"PatientChatbot", "MediKeepChatWidget"}
  /\ hasDocuments \in BOOLEAN
  /\ ChatIdle
  /\ orchestrator = NoTurn
  /\ assembly = NoAssembly
  /\ chunker = NoChunker
  /\ ApiIdle
  /\ UploadIdle
  /\ localStorage = [access_token |-> 1, refresh_token |-> 1, user |-> 1]

NextService ==
  \/ \E body \in Bodies : callSendRAGChat(body)
  \/ \E fault \in Faults, answer \in Answers : chat(fault, answer)
  \/ callSendRAGChatSettled

SpecService == InitService /\ [][NextService]_vars

\* ------------------------------------------------- the context assembly
MaxRetrieved == 2
MaxHistory == 3

\* retrieved chunks in rank order, each with a text of size 2 or 3
RetrievedChunks ==
  UNION {{[i \in 1..n |-> [id |-> i, text |-> texts[i]]] :
            texts \in [1..n -> {1, 2}]} : n \in 0..MaxRetrieved}

\* histories of turns with a content of size 1 or 2
Histories ==
  UNION {[1..n -> {userTurn(<<"a">>), assistantTurn(<<"x", "x">>)}] :
           n \in 0..MaxHistory}

InitContext ==
  /\ StoreIndexed
  /\ document_chunks = ChatChunks
  /\ component = "PatientChatbot"
  /\ hasDocuments = TRUE
  /\ ChatIdle
  /\ orchestrator = NoTurn
  /\ assembly \in [pc : {"start"}, chunks : RetrievedChunks,
                    history : Histories, question : {<<"a">>, <<"a", "b">>},
                    result : {NoContext}]
  /\ chunker = NoChunker
  /\ ApiIdle
  /\ UploadIdle
  /\ localStorage = [access_token |-> 1, refresh_token |-> 1, user |-> 1]

NextContext == assembleContext

SpecContext == InitContext /\ [][NextContext]_vars

\* ------------------------------------------------- the chunker, running
MaxTextLength == 5
ChunkSizes == {1, 2, 3}
Overlaps == {0, 1, 2, 3, 4}

InitChunker ==
  /\ StoreIndexed
  /\ document_chunks = ChatChunks
  /\ component = "PatientChatbot"
  /\ hasDocuments = TRUE
  /\ ChatIdle
  /\ orchestrator = NoTurn
  /\ assembly = NoAssembly
  /\ chunker \in [pc : {"start"}, length : 0..MaxTextLength,
                   size : ChunkSizes, overlap : Overlaps, start : {0},
                   chunks : {<<>>}]
  /\ ApiIdle
  /\ UploadIdle
  /\ localStorage = [access_token |-> 1, refresh_token |-> 1, user |-> 1]

NextChunker ==
  \/ chunkRejected
  \/ Len(chunker.chunks) <= MaxTextLength /\ chunkNext

\* the loop of the chunker runs on until it ends
SpecChunker == InitChunker /\ [][NextChunker]_vars /\ WF_vars(NextChunker)

\* ------------------------------------------------ the api client, in use
MaxTokens == 3
Statuses == {401, 500}
RefreshOutcomes == {"access_token", "no_access_token", "error"}

\* the application is loaded with a session, with or without refresh token
InitApi ==
  /\ StoreIndexed
  /\ document_chunks = ChatChunks
  /\ component = "PatientChatbot"
  /\ hasDocuments = TRUE
  /\ ChatIdle
  /\ orchestrator = NoTurn
  /\ assembly = NoAssembly
  /\ chunker = NoChunker
  /\ ApiIdle
  /\ UploadIdle
  /\ localStorage \in [access_token : {1}, refresh_token : {NULL, 1}, user : {1}]

NextApi ==
  \/ \E r \in RequestIds : apiRequest(r)
  \/ \E r \in RequestIds : responseFulfilled(r)
  \/ \E r \in RequestIds, status \in Statuses : responseRejected(r, status)
  \/ \E r \in RequestIds, outcome \in RefreshOutcomes, token \in 2..MaxTokens :
       /\ outcome = "access_token" => token > localStorage.access_token
       /\ refreshSettled(r, outcome, token)

SpecApi == InitApi /\ [][NextApi]_vars

\* the requests whose POST /auth/refresh is in flight
RefreshesInFlight == {r \in RequestIds : requests[r].pc = "refreshing"}

\* the step taken is the end of the refresh of a request, with that outcome
RefreshEnds(outcome) ==
  /\ apiEvent'.name = "refreshSettled"
  /\ apiEvent'.outcome = outcome
  /\ requests[apiEvent'.request].pc = "refreshing"

\* the step taken is a 401 response to request r
Receives401(r) ==
  /\ apiEvent' = [name |-> "responseRejected", request |-> r, outcome |-> "401"]
  /\ requests[r].pc = "sent"

\* ------------------------------------- the chat, event by event
InitBatched ==
  /\ InitChat
  /\ document_chunks = ChatChunks
  /\ hasDocuments

NextBatched ==
  \/ commitRender
  \/ \E text \in Inputs : onChange(text)
  \/ Len(messages) + 2 <= MaxMessages /\ handleKeyDownOfRender
  \/ Len(messages) + 2 <= MaxMessages /\ onClickSendOfRender
  \/ \E q \in QUICK_QUESTIONS :
       Len(messages) + 2 <= MaxMessages /\ onClickQuickQuestionOfRender(q)
  \/ \E ok \in BOOLEAN, answer \in Answers :
       handleSendSettledOfRender(ok, answer)

SpecBatched == InitBatched /\ [][NextBatched]_vars

\* ------------------------------------------- the document upload, in use
InitUpload ==
  /\ InitChat
  /\ document_chunks = ChatChunks
  /\ component = "PatientChatbot"
  /\ hasDocuments

NextUpload ==
  \/ \E call \in CallIds, files \in 1..MaxFiles : handleUpload(call, files)
  \/ \E call \in CallIds, ok \in BOOLEAN : postSettled(call, ok)

SpecUpload == InitUpload /\ [][NextUpload]_vars

\* ------------------------------------------------------ sequences
IsPrefix(s, t) == Len(s) <= Len(t) /\ s = SubSeq(t, 1, Len(s))
IsSuffix(s, t) == Len(s) <= Len(t) /\ s = SubSeq(t, Len(t) - Len(s) + 1, Len(t))

\* ------------------------------------------------------------ properties
\* C2: every stored chunk references a document that still exists and a
\* patient that still exists
NoOrphanedChunks ==
  \A c \in document_chunks :
    /\ c.document_id \in DocumentIdsPresent
    /\ c.patient_id \in patients

\* the delete of a patient has just removed chunks, one of its documents
\* is kept unassigned, and other chunks are still stored
NoOrphanedChunksWitness ==
  /\ lastOp.op = "delete_patient"
  /\ lastOp.chunks > 0
  /\ \E r \in documents : r.patient_id = NULL
  /\ document_chunks # {}

\* C3: a step that deletes document d leaves no chunk with document_id = d
\* and leaves the chunks of every other document as they were
DeleteDocumentRemovesItsChunks ==
  [][\A d \in DocumentIds :
       DeleteDocument(d) =>
         /\ \A c \in document_chunks' : c.document_id # d
         /\ \A o \in DocumentIds \ {d} :
              {c \in document_chunks' : c.document_id = o} = ChunksOfDocument(o)]_vars

\* a document with chunks has just been deleted and another document's
\* chunks are still stored
DeleteDocumentWitness ==
  /\ lastOp.op = "delete_document"
  /\ lastOp.chunks > 0
  /\ document_chunks # {}

\* C4: a step that deletes patient p leaves no chunk whose document belonged
\* to p and leaves the chunks of every other patient as they were
DeletePatientRemovesItsChunks ==
  [][\A p \in PatientIds, cascade \in BOOLEAN :
       DeletePatient(p, cascade) =>
         /\ \A c \in document_chunks' : PatientOfDocument(c.document_id) # p
         /\ {c \in document_chunks' : c.patient_id # p} =
              {c \in document_chunks : c.patient_id # p}]_vars

\* C5: a step that deletes extraction e keeps the set of chunk ids, clears
\* extraction_id on the chunks that referenced e and changes none of
\* chunk_text, chunk_index, document_id, patient_id, embedding
DeleteExtractionKeepsChunks ==
  [][\A e \in ExtractionIds :
       DeleteExtraction(e) =>
         /\ {c.id : c \in document_chunks'} = {c.id : c \in document_chunks}
         /\ \A c \in document_chunks : \E n \in document_chunks' :
              /\ n.id = c.id
              /\ n.chunk_text = c.chunk_text
              /\ n.chunk_index = c.chunk_index
              /\ n.document_id = c.document_id
              /\ n.patient_id = c.patient_id
              /\ n.embedding = c.embedding
              /\ n.extraction_id = IF c.extraction_id = e THEN NULL
                                   ELSE c.extraction_id]_vars

\* an extraction that chunks referenced has just been deleted
DeleteExtractionWitness ==
  /\ lastOp.op = "delete_extraction"
  /\ lastOp.chunks > 0
  /\ \E c \in document_chunks : c.extraction_id = NULL

\* C8: the patient_id of every chunk is the patient of its document
OwnershipConsistent ==
  \A c \in document_chunks : c.patient_id = PatientOfDocument(c.document_id)

\* C9: no two chunks of one document have the same chunk_index
UniqueChunkIndex ==
  \A c1, c2 \in document_chunks :
    (c1.document_id = c2.document_id /\ c1.chunk_index = c2.chunk_index)
      => c1.id = c2.id

\* C10: every stored chunk has an embedding, and an INSERT without one is
\* rejected and leaves the table as it was
EmbeddingAlwaysPresent ==
  [][/\ \A c \in document_chunks' : c.embedding # NULL
     /\ lastOp'.op = "insert_chunk" =>
          \A p \in PatientIds, d \in DocumentIds,
             e \in ExtractionIds \cup {NULL}, i \in Indexes :
             InsertChunk(p, d, e, 1, i, NULL) =>
               /\ document_chunks' = document_chunks
               /\ ~lastOp'.ok]_vars

\* an INSERT whose only missing column was the embedding has just been
\* rejected while another chunk is stored
EmbeddingRejectedWitness ==
  /\ lastOp.op = "insert_chunk"
  /\ ~lastOp.ok
  /\ lastOp.error = "not_null_embedding"
  /\ document_chunks # {}

\* C1: every chunk query_nearest returned for a patient has that patient's
\* patient_id, whatever the query vector and top_k
RetrievalIsolated ==
  \A c \in lastQuery.result : c.patient_id = lastQuery.patient_id

\* a query returned fewer than top_k chunks although another patient
\* stores a chunk whose embedding equals the query vector
RetrievalIsolatedWitness ==
  /\ lastQuery.result # {}
  /\ Cardinality(lastQuery.result) < lastQuery.top_k
  /\ \E c \in lastQuery.result : c.embedding # lastQuery.query_vector
  /\ \E c \in document_chunks :
       /\ c.patient_id # lastQuery.patient_id
       /\ c.embedding = lastQuery.query_vector

\* C6: no statement of a replace_chunks_for_document transaction changes
\* the chunks of its document that other sessions read, and its COMMIT
\* either changes nothing or leaves exactly the complete new set
ReplaceIsAtomic ==
  [][txn' # txn =>
       LET d == IF txn.pc = "idle" THEN txn'.document_id ELSE txn.document_id
           before == ChunksOfDocument(d)
           after == {c \in document_chunks' : c.document_id = d}
       IN IF txn'.pc # "idle"
            THEN after = before
            ELSE \/ after = before
                 \/ /\ after = txn.inserted
                    /\ Cardinality(after) = txn.count]_vars

\* both statements of a replacement of a non-empty old set by two chunks
\* have run and the old set is still what other sessions read
ReplaceIsAtomicWitness ==
  /\ txn.pc = "inserted"
  /\ txn.old # {}
  /\ Cardinality(txn.inserted) = 2
  /\ ChunksOfDocument(txn.document_id) = txn.old

\* C7: a deleted document has no chunk, and a replacement that reached its
\* COMMIT after its document was deleted was rolled back
StaleReplaceNeverLands ==
  \A d \in DocumentIds \ DocumentIdsPresent :
    /\ ChunksOfDocument(d) = {}
    /\ (lastOp.op = "replace_chunks" /\ lastOp.id = d) => ~lastOp.ok

\* a replacement has just been rolled back at COMMIT because its document
\* was deleted after the transaction began
StaleReplaceWitness ==
  /\ lastOp.op = "replace_chunks"
  /\ ~lastOp.ok
  /\ lastOp.id \notin DocumentIdsPresent

\* C11: a chat turn that fails leaves the history as it was: after the
\* failure the message list is the list of before the question was sent
FailedTurnLeavesHistory ==
  chatEvent = [name |-> "handleSendSettled", outcome |-> "failed"]
    => messages = priorMessages

\* a question asked after an answered one has failed
FailedTurnWitness ==
  /\ chatEvent = [name |-> "handleSendSettled", outcome |-> "failed"]
  /\ Len(messages) >= 2
  /\ messages = priorMessages
  /\ ~loading

\* C12: a chat turn that succeeds appends the user turn with the trimmed
\* question and then the assistant turn with the answer, and nothing else
\* of the list changes
AnsweredTurnAppendsBoth ==
  [][chatEvent'.outcome = "answered"
       => messages' = priorMessages \o <<userTurn(trim(priorInput)),
                                         assistantTurn(response.answer)>>]_vars

\* a question typed with white space around it has been answered after an
\* earlier turn
AnsweredTurnWitness ==
  /\ chatEvent = [name |-> "handleSendSettled", outcome |-> "answered"]
  /\ priorInput = <<" ", "a", " ">>
  /\ Len(priorMessages) >= 2
  /\ messages = priorMessages \o <<userTurn(<<"a">>), assistantTurn(<<"x">>)>>
\* C14: a question that is empty after trimming is rejected before any
\* external call: the component sends no request for it and leaves the
\* message list as it is, and the orchestrator calls neither the embedder
\* nor the language model for it
EmptyQuestionRejected ==
  [][/\ request'.origin = "handleSend" => trim(request'.question) # <<>>
     /\ (chatEvent'.name \in {"handleKeyDown", "onClickSend"}
           /\ trim(input) = <<>>)
          => (messages' = messages /\ request' = request)
     /\ (request.origin # "none" /\ trim(request.question) = <<>>
           /\ response = NoResponse /\ response' # NoResponse)
          => /\ orchestrator'.status = "InvalidInput"
             /\ orchestrator'.embed_calls = 0
             /\ orchestrator'.llm_calls = 0]_vars

\* Enter was pressed on a text of white space only, after an answered turn
EmptyQuestionWitness ==
  /\ chatEvent = [name |-> "handleKeyDown", outcome |-> "ignored"]
  /\ input = <<" ">>
  /\ Len(messages) = 2
  /\ request = NoRequest
\* C15: the chat_history sent with a question holds exactly the turns that
\* were in the message list before that question, from either component;
\* the new question travels as question only
ChatHistoryIsPriorTurns ==
  request.origin = "handleSend" => request.chat_history = priorMessages

\* C13: for a patient with no chunk the orchestrator answers with the fixed
\* no-documents answer, unless the turn fails before retrieval, and never
\* calls the language model, and while hasDocuments is false no component
\* sends a chat request
EmptyContextShortCircuit ==
  [][/\ (request.origin = "none" /\ request'.origin = "handleSend")
          => hasDocuments
     /\ (response = NoResponse /\ response' # NoResponse
           /\ ChunksOfPatient(patientId) = {})
          => /\ orchestrator'.llm_calls = 0
             /\ orchestrator'.status \notin {"InvalidInput", "TransientFailure"}
                  => response' = [status |-> "ok",
                                  answer |-> NO_DOCUMENTS_ANSWER]]_vars

\* a component has sent a question of a patient without chunks, while
\* another patient has one, and the fixed answer is on its way
EmptyContextWitness ==
  /\ request.origin = "handleSend"
  /\ ChunksOfPatient(patientId) = {}
  /\ document_chunks # {}
  /\ response = [status |-> "ok", answer |-> NO_DOCUMENTS_ANSWER]
  /\ orchestrator.embed_calls = 1
  /\ orchestrator.llm_calls = 0

\* C16: top_k is a positive integer within the cap: a request with
\* top_k <= 0 fails with InvalidInput before any external call, no retrieval
\* runs with a top_k above 20, and a request that gives no top_k is sent
\* with 6
TopKPositiveAndCapped ==
  [][/\ (chatEvent'.name = "callSendRAGChat"
           /\ chatEvent'.outcome = "sent_without_top_k"
           /\ request = NoRequest)
          => request'.top_k = 6
     /\ (response = NoResponse /\ response' # NoResponse
           /\ request.top_k <= 0)
          => /\ response'.status = "InvalidInput"
             /\ orchestrator'.embed_calls = 0
             /\ orchestrator'.llm_calls = 0
             /\ orchestrator'.retrieved = <<>>
     /\ (orchestrator'.embed_calls = 1 /\ orchestrator'.status = "ok")
          => orchestrator'.top_k \in 1..20]_vars

\* a request with top_k 21 has been answered from a retrieval with top_k 20
TopKWitness ==
  /\ request.origin = "caller"
  /\ request.top_k = 21
  /\ orchestrator.status = "ok"
  /\ orchestrator.top_k = 20
  /\ orchestrator.retrieved # <<>>
\* C17: when the context is over the limit, history turns are dropped
\* oldest first until none is left and only then retrieved chunks,
\* lowest-ranked first; the question is never dropped, no chunk is cut, and
\* nothing is dropped that would have fitted
ContextTrimmedInOrder ==
  assembly.pc = "done" =>
    LET r == assembly.result
        droppedTurns == Len(assembly.history) - Len(r.history)
        droppedChunks == Len(assembly.chunks) - Len(r.chunks)
    IN /\ r.question = assembly.question
       /\ IsSuffix(r.history, assembly.history)
       /\ IsPrefix(r.chunks, assembly.chunks)
       /\ droppedChunks > 0 => r.history = <<>>
       /\ (r.chunks # <<>> \/ r.history # <<>>)
            => ContextSize(r.chunks, r.history, r.question) <= MaxContextSize
       /\ (droppedTurns > 0 /\ droppedChunks = 0)
            => ContextSize(assembly.chunks,
                           SubSeq(assembly.history, droppedTurns,
                                  Len(assembly.history)),
                           assembly.question) > MaxContextSize
       /\ droppedChunks > 0
            => ContextSize(SubSeq(assembly.chunks, 1, Len(r.chunks) + 1),
                           <<>>, assembly.question) > MaxContextSize

\* the whole history and the lower-ranked of two chunks were dropped
ContextTrimmedWitness ==
  /\ assembly.pc = "done"
  /\ Len(assembly.history) = 2
  /\ Len(assembly.chunks) = 2
  /\ assembly.result.history = <<>>
  /\ assembly.result.chunks = <<assembly.chunks[1]>>
\* C18: for every text that is not empty and every chunk size and overlap,
\* also an overlap of the size or more, the chunker terminates, emits no
\* chunk of length zero, and starts each chunk strictly after the one
\* before it
ChunkerMakesProgress ==
  /\ [](\A i \in 1..Len(chunker.chunks) :
          /\ chunker.chunks[i].chunk_end > chunker.chunks[i].chunk_start
          /\ i > 1 => chunker.chunks[i].chunk_start
                        > chunker.chunks[i - 1].chunk_start)
  /\ (chunker.length > 0 => <>(chunker.pc = "done"))

\* a text chunked with an overlap larger than the chunk size, to its end
ChunkerWitness ==
  /\ chunker.pc = "done"
  /\ chunker.overlap > chunker.size
  /\ Len(chunker.chunks) >= 3
  /\ chunker.chunks[Len(chunker.chunks)].chunk_end = chunker.length
\* C19: updated_at is set only when a chunk is corrected in place: under
\* every other operation of the store, the clearing of the extraction
\* reference among them, it stays null from the insert on, and created_at
\* never changes
TimestampsUntouched ==
  [][\A n \in document_chunks' :
       /\ n.updated_at = NULL
       /\ \A c \in document_chunks : c.id = n.id => n.created_at = c.created_at]_vars

\* C20: the requests put in failedQueue while a refresh is under way are
\* settled when that refresh finishes, whatever its outcome: once no
\* refresh is under way, none of them is still waiting
QueueSettledWithRefresh ==
  ~isRefreshing => failedQueue = <<>>
\* C21: isRefreshing is true only while a refresh request is in flight: on
\* every path out of the 401 handler it is false again
RefreshingOnlyWhileInFlight ==
  isRefreshing => RefreshesInFlight # {}

\* C22: at most one /auth/refresh request is in flight at any time: a
\* request that fails with 401 while one is in flight starts none and is
\* queued
AtMostOneRefresh ==
  [][/\ Cardinality(RefreshesInFlight') <= 1
     /\ \A r \in RequestIds :
          (Receives401(r) /\ ~requests[r]._retry /\ RefreshesInFlight # {})
            => /\ requests'[r].pc = "queued"
               /\ RefreshesInFlight' = RefreshesInFlight]_vars

\* one refresh is in flight and the two other requests wait in the queue
AtMostOneRefreshWitness ==
  /\ Cardinality(RefreshesInFlight) = 1
  /\ Len(failedQueue) = 2
  /\ \A r \in RequestIds \ RefreshesInFlight : requests[r].pc = "queued"

\* C23: when the refresh fails, every queued request and the request that
\* started the refresh are rejected, access_token, refresh_token and user
\* are removed from localStorage, and no request is sent again
FailedRefreshRejectsAll ==
  [][RefreshEnds("error")
       => /\ \A i \in 1..Len(failedQueue) :
               requests'[failedQueue[i]].pc = "rejected"
          /\ requests'[apiEvent'.request].pc = "rejected"
          /\ localStorage' = [access_token |-> NULL, refresh_token |-> NULL,
                              user |-> NULL]
          /\ \A r \in RequestIds : requests'[r].sends = requests[r].sends]_vars

\* a refresh has failed with a request in the queue: both are rejected,
\* sent once, and the storage is empty
FailedRefreshWitness ==
  /\ apiEvent.name = "refreshSettled"
  /\ apiEvent.outcome = "error"
  /\ failedQueue = <<>>
  /\ localStorage.access_token = NULL
  /\ \E q \in RequestIds :
       /\ q # apiEvent.request
       /\ ~requests[q]._retry
       /\ requests[q] = [requests[apiEvent.request] EXCEPT !._retry = FALSE]
       /\ requests[q].pc = "rejected"
       /\ requests[q].sends = 1

\* C24: no request is sent again without bound: a request that was sent
\* again and whose next response is 401 again is rejected and starts no
\* refresh
ResentRequestRejectedOn401 ==
  [][\A r \in RequestIds :
       (Receives401(r) /\ requests[r].sends >= 2)
         => /\ requests'[r].pc = "rejected"
            /\ RefreshesInFlight' = RefreshesInFlight]_vars

\* C25: after a successful refresh the request that started it and every
\* queued request are sent again once localStorage holds the new token,
\* and every request sent carries the token stored, never the expired one
ResentWithNewToken ==
  [][/\ \A r \in RequestIds :
          requests'[r].sends > requests[r].sends
            => requests'[r].authorization = localStorage'.access_token
     /\ RefreshEnds("access_token")
          => /\ localStorage'.access_token # localStorage.access_token
             /\ \A r \in RequestIds :
                  (r = apiEvent'.request
                     \/ \E i \in 1..Len(failedQueue) : failedQueue[i] = r)
                    => /\ requests'[r].sends = requests[r].sends + 1
                       /\ requests'[r].pc = "sent"
                       /\ requests'[r].authorization
                            # localStorage.access_token]_vars

\* a refresh has succeeded with a request in the queue: both were sent a
\* second time, with the token now stored
ResentWithNewTokenWitness ==
  /\ apiEvent.name = "refreshSettled"
  /\ apiEvent.outcome = "access_token"
  /\ localStorage.access_token = 2
  /\ \E q \in RequestIds :
       /\ q # apiEvent.request
       /\ requests[q] = [pc |-> "sent", _retry |-> FALSE,
                         authorization |-> 2, sends |-> 2]
       /\ requests[apiEvent.request] = [requests[q] EXCEPT !._retry = TRUE]
MessagesAlternate ==
  ~loading
    => /\ Len(messages) % 2 = 0
       /\ \A k \in 1..Len(messages) :
            messages[k].role = IF k % 2 = 1 THEN "user" ELSE "assistant"

\* in the widget a predefined quick question was answered at once and the
\* question typed after it has been answered by the service
MessagesAlternateWitness ==
  /\ component = "MediKeepChatWidget"
  /\ chatEvent = [name |-> "handleSendSettled", outcome |-> "answered"]
  /\ ~loading
  /\ Len(messages) = 4
  /\ messages[1] = userTurn(<<"q">>)
  /\ messages[2] = assistantTurn(PREDEFINED_ANSWERS[<<"q">>])
  /\ messages[3] = userTurn(<<"a">>)
  /\ messages[4] = assistantTurn(<<"x">>)

\* C28: after handleUpload has processed its files, the success toast and
\* onUploadComplete fire if and only if every file of the batch ended with
\* status success
SuccessToastIffAllSucceeded ==
  uploadEvent.name = "handleUploadEnd"
    => /\ uploadEvent.onUploadComplete <=> "success" \in uploadEvent.toasts
       /\ "success" \in uploadEvent.toasts
            <=> \A k \in 1..Len(uploadEvent.statuses) :
                  uploadEvent.statuses[k] = "success"
====
